---- MODULE Spec2Model ----
(***************************************************************************)
(* Verification model of four components of the home-assistant frontend:   *)
(*   - CloudStepSignin  (dialogs/voice-assistant-setup/cloud)              *)
(*   - HaChartBase      (components/chart/ha-chart-base.ts)                *)
(*   - StatisticsChart  (components/chart/statistics-chart.ts)             *)
(*   - StateCardScript  (state-summary/state-card-script)                  *)
(* Each component has its own specifications (SpecLogin; SpecChart,        *)
(* SpecPadding, SpecHidden, SpecResize; SpecGen, SpecStats; SpecScript);   *)
(* the variables of the other components stay at their initial values.     *)
(***************************************************************************)
EXTENDS Integers, Sequences, FiniteSets, TLC

VARIABLES
  \* ---- CloudStepSignin
  _requestInProgress,  \* @state _requestInProgress
  _error,              \* @state _error (UNDEF when unset)
  loginPc,             \* position of the _handleLogin invocation
  loginCalls,          \* cloudLogin calls of the current invocation, in order
  focused,             \* field that last received focus()
  navigated,           \* alert dialog shown, navigate() and "closed" fired
  \* ---- HaChartBase
  connected,           \* element attached to the DOM
  hasUpdated,          \* LitElement.hasUpdated
  chartType,           \* property chartType
  plugins,             \* property plugins
  changedProps,        \* properties changed since the last update
  chart,               \* this.chart
  orphans,             \* live Chart objects no longer referenced by this.chart
  _loading,            \* private _loading
  setupPending,        \* _setupChart calls suspended at the await import
  lastSetup,           \* outcome of the latest _setupChart call that passed the guard
  skipped,             \* a _setupChart call returned at the guard since then
  usedDestroyed,       \* a chart method ran on a destroyed Chart
  paddingYAxis,        \* property paddingYAxis
  _paddingYAxisInternal, \* private _paddingYAxisInternal
  _paddingUpdateCount, \* private _paddingUpdateCount
  _paddingUpdateLock,  \* private _paddingUpdateLock
  clearPending,        \* the timer of _debouncedClearUpdates is running
  lastShouldUpdate,    \* what shouldUpdate returned for the latest update
  externalHidden,      \* property externalHidden
  datasets,            \* property data: data.datasets[i].hidden of each dataset
  _hiddenDatasets,     \* @state _hiddenDatasets
  _datasetOrder,       \* private _datasetOrder
  _chartHeight,        \* @state _chartHeight (NoHeight when unset)
  reportedHeight,      \* chart.height at the latest call of the resize hook
  \* ---- StatisticsChart
  statisticsData,      \* property statisticsData
  statChartType,       \* property chartType of the statistics chart
  endTimeSet,          \* property endTime is set
  metadataSet,         \* property metadata is set
  _chartData,          \* @state _chartData.datasets
  _chartDatasetExtra,  \* @state _chartDatasetExtra
  _statisticIds,       \* @state _statisticIds
  pendingCalls,        \* _generateData calls suspended at the metadata await
  threw,               \* a _generateData call ended with an exception
  \* ---- StateCardScript
  stateObj,            \* property stateObj (entity_id, state, attributes.max)
  hasFields,           \* the script service of the entity declares fields
  serviceCalls,        \* hass.callService calls made, in order
  servicePending,      \* callService promises not settled yet
  dialogsOpened,       \* showMoreInfoDialog calls made, in order
  clicks,              \* button clicks handled
  lastClick            \* button of the latest click

loginVars == <<_requestInProgress, _error, loginPc, loginCalls, focused, navigated>>
padVars == <<paddingYAxis, _paddingYAxisInternal, _paddingUpdateCount,
             _paddingUpdateLock, clearPending, lastShouldUpdate>>
hiddenVars == <<externalHidden, datasets, _hiddenDatasets, _datasetOrder>>
sizeVars == <<_chartHeight, reportedHeight>>
chartVars == <<connected, hasUpdated, chartType, plugins, changedProps, chart,
               orphans, _loading, setupPending, lastSetup, skipped, usedDestroyed,
               padVars, hiddenVars, sizeVars>>
statsVars == <<statisticsData, statChartType, endTimeSet, metadataSet, _chartData,
               _chartDatasetExtra, _statisticIds, pendingCalls, threw>>
scriptVars == <<stateObj, hasFields, serviceCalls, servicePending, dialogsOpened,
                clicks, lastClick>>
vars == <<loginVars, chartVars, statsVars, scriptVars>>

\* The JavaScript value undefined, where a string is expected.
UNDEF == "undefined"

(***************************************************************************)
(* Bounds                                                                  *)
(***************************************************************************)
MaxNameLen == 2

MaxTime == 1

MaxBuckets == 2

MaxPending == 2

\* paddingYAxis takes the values 0..MaxPadding
MaxPadding == 1

\* data.datasets has at most MaxDatasets entries
MaxDatasets == 2

\* Chart.js reports the heights 0..MaxHeight
MaxHeight == 26

\* button clicks handled by the script card
MaxClicks == 3

(***************************************************************************)
(* CloudStepSignin                                                         *)
(***************************************************************************)
Chars == {"A", "a", "b"}

\* String.prototype.toLowerCase on one character
LowerChar(c) == IF c = "A" THEN "a" ELSE c

\* username.toLowerCase()
ToLowerCase(s) == [i \in DOMAIN s |-> LowerChar(s[i])]

Usernames == UNION {[1..n -> Chars] : n \in 1..MaxNameLen}

\* err && err.body && err.body.code
ErrCodes == {"usernotfound", "PasswordChangeRequired", "UserNotConfirmed",
             "other", UNDEF}

\* err.body.message
ErrMessages == {UNDEF, "", "Invalid credentials"}

\* hass.localize("ui.panel.config.cloud.login.alert_email_confirm_necessary")
LocalizedConfirm == "alert_email_confirm_necessary"

RetryAny(errCode, username) == errCode = "usernotfound"

\* the condition of the retry with the lower-cased username
RetryLowerCase(errCode, username) ==
  errCode = "usernotfound" /\ username # ToLowerCase(username)

ErrorTextRaw(errCode, message) ==
  IF errCode = "UserNotConfirmed" THEN LocalizedConfirm ELSE message

\* the text assigned to _error
ErrorText(errCode, message) ==
  IF errCode = "UserNotConfirmed" THEN LocalizedConfirm
  ELSE IF message # UNDEF /\ message # "" THEN message
  ELSE "Unknown error"

\* _handleLogin up to the first await: the validity checks and the first cloudLogin
HandleLogin(email, emailValid, passwordValid) ==
  /\ ~_requestInProgress      \* button and fields are disabled while in progress
  /\ loginPc # "calling"
  /\ IF ~emailValid THEN
       /\ focused' = "email"
       /\ loginPc' = "done"
       /\ loginCalls' = <<>>
       /\ UNCHANGED <<_requestInProgress, _error, navigated>>
     ELSE IF ~passwordValid THEN
       /\ focused' = "password"
       /\ loginPc' = "done"
       /\ loginCalls' = <<>>
       /\ UNCHANGED <<_requestInProgress, _error, navigated>>
     ELSE
       /\ _requestInProgress' = TRUE
       /\ loginCalls' = <<[username |-> email, result |-> "pending"]>>
       /\ loginPc' = "calling"
       /\ UNCHANGED <<_error, focused, navigated>>
  /\ UNCHANGED <<chartVars, statsVars, scriptVars>>

\* the awaited cloudLogin resolves
LoginResolve ==
  /\ loginPc = "calling"
  /\ loginCalls' = [loginCalls EXCEPT ![Len(loginCalls)].result = "ok"]
  /\ loginPc' = "done"
  /\ UNCHANGED <<_requestInProgress, _error, focused, navigated>>
  /\ UNCHANGED <<chartVars, statsVars, scriptVars>>

\* the awaited cloudLogin rejects: the catch block of doLogin
LoginReject(errCode, message) ==
  /\ loginPc = "calling"
  /\ LET n == Len(loginCalls)
         username == loginCalls[n].username
         settled == [loginCalls EXCEPT ![n].result = errCode]
     IN IF RetryLowerCase(errCode, username) THEN
          /\ loginCalls' = Append(settled, [username |-> ToLowerCase(username),
                                            result |-> "pending"])
          /\ UNCHANGED <<loginPc, _requestInProgress, _error, focused, navigated>>
        ELSE IF errCode = "PasswordChangeRequired" THEN
          /\ loginCalls' = settled
          /\ navigated' = TRUE
          /\ loginPc' = "done"
          /\ UNCHANGED <<_requestInProgress, _error, focused>>
        ELSE
          /\ loginCalls' = settled
          /\ _requestInProgress' = FALSE
          /\ _error' = ErrorText(errCode, message)
          /\ focused' = "email"
          /\ loginPc' = "done"
          /\ UNCHANGED navigated
  /\ UNCHANGED <<chartVars, statsVars, scriptVars>>

NextLogin ==
  \/ \E email \in Usernames, ev \in BOOLEAN, pv \in BOOLEAN : HandleLogin(email, ev, pv)
  \/ LoginResolve
  \/ \E c \in ErrCodes, m \in ErrMessages : LoginReject(c, m)

(***************************************************************************)
(* HaChartBase                                                             *)
(***************************************************************************)
ChartTypes == {"line", "bar"}

\* the plugins property: unset, or an array of plugins
PluginSets == {UNDEF, "custom"}

\* the reactive properties an update can report as changed
ChartProps == {"chartType", "plugins", "data", "options", "_hiddenDatasets",
               "paddingYAxis", "externalHidden"}

PaddingValues == 0..MaxPadding

\* data.datasets as the sequence of the datasets' hidden flags; dataset i of
\* the model is data.datasets[i - 1], and no dataset has an order
DataInputs == UNION {[1..n -> BOOLEAN] : n \in 0..MaxDatasets}

Heights == 0..MaxHeight

\* _chartHeight is undefined; a number h is <<h>>
NoHeight == <<>>

\* if (this._paddingUpdateCount > 300)
PaddingUpdateLimit == 300

\* change > 12 || change < -12
HeightHysteresis == 12

\* this.chart is undefined
NoChart == [exists |-> FALSE, type |-> "line", plugins |-> UNDEF,
            destroyed |-> FALSE, replaces |-> FALSE]

\* a Chart object that has been created and not destroyed
IsLive(c) == c.exists /\ ~c.destroyed

\* number of Chart objects created and not yet destroyed
LiveCharts == orphans + (IF IsLive(chart) THEN 1 ELSE 0)

\* LitElement starts updating at the first connectedCallback
UpdatesEnabled == hasUpdated \/ changedProps # {}

ReleaseNothing(c) == c

\* _releaseCanvas: chart.destroy() when a chart is referenced
ReleaseCanvas(c) == IF c.exists THEN [c EXCEPT !.destroyed = TRUE] ELSE c

SetupGuardOff == FALSE

\* if (this._loading) return;
SetupGuard == _loading

\* _setupChart up to the await import(...)
SetupChart ==
  IF SetupGuard THEN
    /\ skipped' = TRUE
    /\ UNCHANGED <<_loading, setupPending, lastSetup>>
  ELSE
    /\ _loading' = TRUE
    /\ setupPending' = setupPending + 1
    /\ lastSetup' = "started"
    /\ skipped' = FALSE

NoSetup == UNCHANGED <<_loading, setupPending, lastSetup, skipped>>

\* a method of this.chart is called (update, resize, data/options assignment)
ChartOp(c) == usedDestroyed' = (usedDestroyed \/ (c.exists /\ c.destroyed))

RebuildOnPlugins(cp) == "plugins" \in cp

\* changedProps.has("plugins") || changedProps.has("chartType")
NeedsRebuild(cp) == "plugins" \in cp \/ "chartType" \in cp

RejectAnyPadding(lock, cp) == ~(lock /\ "paddingYAxis" \in cp)

\* shouldUpdate(changedProps)
shouldUpdate(lock, cp) ==
  ~(lock /\ Cardinality(cp) = 1 /\ "paddingYAxis" \in cp)

\* changedProps.size === 1 && changedProps.has("paddingYAxis")
PaddingOnly(cp) == Cardinality(cp) = 1 /\ "paddingYAxis" \in cp

LimitNotStrict(count) == count >= PaddingUpdateLimit

\* this._paddingUpdateCount > 300
ExceedsLimit(count) == count > PaddingUpdateLimit

\* willUpdate, the padding block
WillUpdatePadding(cp) ==
  IF _paddingUpdateLock THEN
    UNCHANGED <<_paddingYAxisInternal, _paddingUpdateCount, _paddingUpdateLock,
                clearPending>>
  ELSE
    /\ _paddingYAxisInternal' = paddingYAxis
    /\ IF PaddingOnly(cp) THEN
         /\ _paddingUpdateCount' = _paddingUpdateCount + 1
         /\ _paddingUpdateLock' = ExceedsLimit(_paddingUpdateCount + 1)
         \* below the limit the debounced reset is (re)started
         /\ clearPending' = (IF ExceedsLimit(_paddingUpdateCount + 1)
                             THEN clearPending ELSE TRUE)
       ELSE
         UNCHANGED <<_paddingUpdateCount, _paddingUpdateLock, clearPending>>

\* the indices whose dataset.hidden is truthy
HiddenIn(d) == {i \in 1..Len(d) : d[i]}

HiddenKeepAll(prev, d, ext) == IF ext THEN prev \cup HiddenIn(d) ELSE prev

\* willUpdate, if (this.externalHidden): new Set() filled from the datasets
HiddenAfterData(prev, d, ext) == IF ext THEN HiddenIn(d) ELSE prev

\* dataset.hidden = this._hiddenDatasets.has(index), when the update gets there
DataAfterUpdate(cp) ==
  IF /\ hasUpdated
     /\ chart.exists
     /\ ~NeedsRebuild(cp)
     /\ "data" \in cp
     /\ _hiddenDatasets # {}
     /\ ~externalHidden
  THEN [i \in 1..Len(datasets) |-> i \in _hiddenDatasets]
  ELSE datasets

\* willUpdate, the data block, and firstUpdated's forEach on the first update
WillUpdateData(cp) ==
  /\ _datasetOrder' = (IF "data" \in cp THEN [i \in 1..Len(datasets) |-> i]
                       ELSE _datasetOrder)
  /\ _hiddenDatasets' =
       (IF "data" \in cp THEN HiddenAfterData(_hiddenDatasets, datasets, externalHidden)
        ELSE _hiddenDatasets)
       \cup (IF ~hasUpdated THEN HiddenIn(datasets) ELSE {})
  /\ datasets' = DataAfterUpdate(cp)

connectedCallback ==
  /\ ~connected
  /\ connected' = TRUE
  /\ IF hasUpdated THEN
       /\ chart' = ReleaseCanvas(chart)
       /\ SetupChart
       /\ UNCHANGED changedProps
     ELSE
       \* the first connection requests the first update
       /\ changedProps' = (IF UpdatesEnabled THEN changedProps ELSE ChartProps)
       /\ NoSetup
       /\ UNCHANGED chart
  /\ UNCHANGED <<hasUpdated, chartType, plugins, orphans, usedDestroyed>>
  /\ UNCHANGED <<padVars, hiddenVars, sizeVars>>
  /\ UNCHANGED <<loginVars, statsVars, scriptVars>>

disconnectedCallback ==
  /\ connected
  /\ connected' = FALSE
  /\ chart' = ReleaseCanvas(chart)
  /\ NoSetup
  /\ UNCHANGED <<hasUpdated, chartType, plugins, changedProps, orphans, usedDestroyed>>
  /\ UNCHANGED <<padVars, hiddenVars, sizeVars>>
  /\ UNCHANGED <<loginVars, statsVars, scriptVars>>

\* a parent assigns a reactive property
SetProperty(name) ==
  /\ name \in {"data", "options"}
  /\ changedProps' = (IF UpdatesEnabled THEN changedProps \cup {name} ELSE changedProps)
  /\ NoSetup
  /\ UNCHANGED <<connected, hasUpdated, chartType, plugins, chart, orphans, usedDestroyed>>
  /\ UNCHANGED <<padVars, hiddenVars, sizeVars>>
  /\ UNCHANGED <<loginVars, statsVars, scriptVars>>

SetChartType(t) ==
  /\ t # chartType
  /\ chartType' = t
  /\ changedProps' = (IF UpdatesEnabled THEN changedProps \cup {"chartType"}
                      ELSE changedProps)
  /\ NoSetup
  /\ UNCHANGED <<connected, hasUpdated, plugins, chart, orphans, usedDestroyed>>
  /\ UNCHANGED <<padVars, hiddenVars, sizeVars>>
  /\ UNCHANGED <<loginVars, statsVars, scriptVars>>

SetPlugins(p) ==
  /\ p # plugins
  /\ plugins' = p
  /\ changedProps' = (IF UpdatesEnabled THEN changedProps \cup {"plugins"}
                      ELSE changedProps)
  /\ NoSetup
  /\ UNCHANGED <<connected, hasUpdated, chartType, chart, orphans, usedDestroyed>>
  /\ UNCHANGED <<padVars, hiddenVars, sizeVars>>
  /\ UNCHANGED <<loginVars, statsVars, scriptVars>>

\* one reactive update: shouldUpdate(changedProps), then
\* willUpdate(changedProps), render, and on the first update firstUpdated
PerformUpdate ==
  /\ changedProps # {}
  /\ changedProps' = {}
  /\ lastShouldUpdate' = shouldUpdate(_paddingUpdateLock, changedProps)
  /\ IF ~shouldUpdate(_paddingUpdateLock, changedProps) THEN
       \* the update is dropped: no willUpdate, no render
       /\ NoSetup
       /\ UNCHANGED <<hasUpdated, chart, usedDestroyed, _paddingYAxisInternal,
                      _paddingUpdateCount, _paddingUpdateLock, clearPending,
                      datasets, _hiddenDatasets, _datasetOrder>>
     ELSE
       /\ hasUpdated' = TRUE
       /\ WillUpdatePadding(changedProps)
       /\ WillUpdateData(changedProps)
       /\ IF ~hasUpdated THEN
            \* willUpdate returns early; firstUpdated calls _setupChart
            /\ SetupChart
            /\ UNCHANGED <<chart, usedDestroyed>>
          ELSE IF ~chart.exists THEN
            /\ NoSetup
            /\ UNCHANGED <<chart, usedDestroyed>>
          ELSE IF NeedsRebuild(changedProps) THEN
            /\ chart' = ReleaseCanvas(chart)
            /\ SetupChart
            /\ UNCHANGED usedDestroyed
          ELSE
            \* chart.data = ..., chart.options = ..., chart.update("none")
            /\ ChartOp(chart)
            /\ NoSetup
            /\ UNCHANGED chart
  /\ UNCHANGED <<connected, chartType, plugins, orphans, paddingYAxis,
                 externalHidden, sizeVars>>
  /\ UNCHANGED <<loginVars, statsVars, scriptVars>>

\* type: this.chartType
ConstructedType == chartType

\* the import resolves and new ChartConstructor(...) is assigned to this.chart
SetupComplete ==
  /\ setupPending > 0
  /\ chart' = [exists |-> TRUE, type |-> ConstructedType, plugins |-> plugins,
               destroyed |-> FALSE, replaces |-> chart.exists]
  /\ orphans' = orphans + (IF IsLive(chart) THEN 1 ELSE 0)
  /\ _loading' = FALSE
  /\ setupPending' = setupPending - 1
  /\ lastSetup' = "done"
  /\ UNCHANGED <<connected, hasUpdated, chartType, plugins, changedProps,
                 skipped, usedDestroyed>>
  /\ UNCHANGED <<padVars, hiddenVars, sizeVars>>
  /\ UNCHANGED <<loginVars, statsVars, scriptVars>>

\* the import or the constructor throws: only the finally block runs
SetupFail ==
  /\ setupPending > 0
  /\ _loading' = FALSE
  /\ setupPending' = setupPending - 1
  /\ lastSetup' = "failed"
  /\ UNCHANGED <<connected, hasUpdated, chartType, plugins, changedProps, chart,
                 orphans, skipped, usedDestroyed>>
  /\ UNCHANGED <<padVars, hiddenVars, sizeVars>>
  /\ UNCHANGED <<loginVars, statsVars, scriptVars>>

\* updateChart(mode): this.chart?.update(mode)
updateChart ==
  /\ chart.exists
  /\ ChartOp(chart)
  /\ NoSetup
  /\ UNCHANGED <<connected, hasUpdated, chartType, plugins, changedProps, chart, orphans>>
  /\ UNCHANGED <<padVars, hiddenVars, sizeVars>>
  /\ UNCHANGED <<loginVars, statsVars, scriptVars>>

\* resize(options): this.chart?.resize(width, height)
\* (the call Chart.js then makes to the resize hook is resizeHook)
resize ==
  /\ chart.exists
  /\ ChartOp(chart)
  /\ NoSetup
  /\ UNCHANGED <<connected, hasUpdated, chartType, plugins, changedProps, chart, orphans>>
  /\ UNCHANGED <<padVars, hiddenVars, sizeVars>>
  /\ UNCHANGED <<loginVars, statsVars, scriptVars>>

\* _legendClick on the legend entry of dataset index; visible is what
\* chart.isDatasetVisible(index) returns
LegendClick(index) ==
  /\ hasUpdated
  /\ chart.exists
  /\ index \in 1..Len(_datasetOrder)
  /\ \E visible \in BOOLEAN :
       _hiddenDatasets' = (IF visible THEN _hiddenDatasets \cup {index}
                           ELSE _hiddenDatasets \ {index})
  /\ ChartOp(chart)
  /\ changedProps' = changedProps \cup {"_hiddenDatasets"}
  /\ NoSetup
  /\ UNCHANGED <<connected, hasUpdated, chartType, plugins, chart, orphans>>
  /\ UNCHANGED <<padVars, externalHidden, datasets, _datasetOrder, sizeVars>>
  /\ UNCHANGED <<loginVars, statsVars, scriptVars>>

\* a parent assigns paddingYAxis
SetPaddingYAxis(v) ==
  /\ v # paddingYAxis
  /\ paddingYAxis' = v
  /\ changedProps' = (IF UpdatesEnabled THEN changedProps \cup {"paddingYAxis"}
                      ELSE changedProps)
  /\ NoSetup
  /\ UNCHANGED <<connected, hasUpdated, chartType, plugins, chart, orphans,
                 usedDestroyed>>
  /\ UNCHANGED <<_paddingYAxisInternal, _paddingUpdateCount, _paddingUpdateLock,
                 clearPending, lastShouldUpdate, hiddenVars, sizeVars>>
  /\ UNCHANGED <<loginVars, statsVars, scriptVars>>

\* the debounce timer expires: () => { this._paddingUpdateCount = 0; }
ClearUpdatesTimeout ==
  /\ clearPending
  /\ clearPending' = FALSE
  /\ _paddingUpdateCount' = 0
  /\ NoSetup
  /\ UNCHANGED <<connected, hasUpdated, chartType, plugins, changedProps, chart,
                 orphans, usedDestroyed>>
  /\ UNCHANGED <<paddingYAxis, _paddingYAxisInternal, _paddingUpdateLock,
                 lastShouldUpdate, hiddenVars, sizeVars>>
  /\ UNCHANGED <<loginVars, statsVars, scriptVars>>

\* a parent assigns a new data object
SetData(d) ==
  /\ datasets' = d
  /\ changedProps' = (IF UpdatesEnabled THEN changedProps \cup {"data"}
                      ELSE changedProps)
  /\ NoSetup
  /\ UNCHANGED <<connected, hasUpdated, chartType, plugins, chart, orphans,
                 usedDestroyed>>
  /\ UNCHANGED <<padVars, externalHidden, _hiddenDatasets, _datasetOrder,
                 sizeVars>>
  /\ UNCHANGED <<loginVars, statsVars, scriptVars>>

\* a parent assigns externalHidden
SetExternalHidden(b) ==
  /\ b # externalHidden
  /\ externalHidden' = b
  /\ changedProps' = (IF UpdatesEnabled THEN changedProps \cup {"externalHidden"}
                      ELSE changedProps)
  /\ NoSetup
  /\ UNCHANGED <<connected, hasUpdated, chartType, plugins, chart, orphans,
                 usedDestroyed>>
  /\ UNCHANGED <<padVars, datasets, _hiddenDatasets, _datasetOrder, sizeVars>>
  /\ UNCHANGED <<loginVars, statsVars, scriptVars>>

HysteresisOneSided(cur, h) ==
  IF cur = NoHeight \/ cur[1] = 0 \/ h - cur[1] > HeightHysteresis
  THEN <<h>> ELSE cur

\* the body of the resize hook for chart.height = h
NewChartHeight(cur, h) ==
  LET change == h - (IF cur = NoHeight THEN 0 ELSE cur[1])
  IN IF cur = NoHeight \/ cur[1] = 0
        \/ change > HeightHysteresis \/ change < -HeightHysteresis
     THEN <<h>> ELSE cur

\* Chart.js calls the resizeHook plugin of the chart with chart.height = h
resizeHook(h) ==
  /\ IsLive(chart)
  /\ reportedHeight' = <<h>>
  /\ _chartHeight' = NewChartHeight(_chartHeight, h)
  \* _chartHeight is reactive state: a changed value requests an update
  /\ changedProps' = (IF NewChartHeight(_chartHeight, h) # _chartHeight
                      THEN changedProps \cup {"_chartHeight"} ELSE changedProps)
  /\ NoSetup
  /\ UNCHANGED <<connected, hasUpdated, chartType, plugins, chart, orphans,
                 usedDestroyed>>
  /\ UNCHANGED <<padVars, hiddenVars>>
  /\ UNCHANGED <<loginVars, statsVars, scriptVars>>

NextChart ==
  \/ connectedCallback
  \/ disconnectedCallback
  \/ \E name \in {"data", "options"} : SetProperty(name)
  \/ \E t \in ChartTypes : SetChartType(t)
  \/ \E p \in PluginSets : SetPlugins(p)
  \/ PerformUpdate
  \/ SetupComplete
  \/ SetupFail
  \/ updateChart
  \/ resize
  \/ \E index \in 1..MaxDatasets : LegendClick(index)

\* the padding updates of a chart
NextPadding ==
  \/ connectedCallback
  \/ disconnectedCallback
  \/ \E v \in PaddingValues : SetPaddingYAxis(v)
  \/ \E name \in {"data", "options"} : SetProperty(name)
  \/ PerformUpdate
  \/ SetupComplete
  \/ ClearUpdatesTimeout

\* data, externalHidden and the legend of a chart
NextHidden ==
  \/ connectedCallback
  \/ disconnectedCallback
  \/ \E d \in DataInputs : SetData(d)
  \/ \E b \in BOOLEAN : SetExternalHidden(b)
  \/ PerformUpdate
  \/ SetupComplete
  \/ \E index \in 1..MaxDatasets : LegendClick(index)

\* the heights Chart.js reports to the resize hook
NextResize ==
  \/ connectedCallback
  \/ disconnectedCallback
  \/ PerformUpdate
  \/ SetupComplete
  \/ \E h \in Heights : resizeHook(h)

(***************************************************************************)
(* StatisticsChart                                                         *)
(***************************************************************************)
\* The JavaScript value null in a data point or a statistic value; a number
\* n is <<n>>.
Null == <<>>

Num(n) == <<n>>

IsNull(v) == v = Null

\* property statTypes (its default value)
statTypes == <<"sum", "min", "mean", "max">>

StatisticIdsAll == {"a", "b"}

\* statisticsData is undefined
NoData == [defined |-> FALSE, entries |-> <<>>]

\* Object.keys(this.statisticsData)
Keys(entries) == {entries[i].id : i \in DOMAIN entries}

\* getStatisticMetadata(hass, statisticIds): the metadata of the requested
\* statistic ids; the backend applies no filter when the list is empty
MetaFor(ids) ==
  [id \in StatisticIdsAll |->
     IF id \in ids \/ ids = {}
     THEN [defined |-> TRUE, name |-> <<"name of", id>>,
           unit_of_measurement |-> <<"unit of", id>>]
     ELSE [defined |-> FALSE, name |-> <<>>, unit_of_measurement |-> <<>>]]

\* getStatisticLabel(hass, statistic_id, meta) for a statistic without entity
StatisticLabel(id, meta) == IF meta.defined THEN meta.name ELSE <<id>>

\* stat[type]
StatValue(stat, type) ==
  CASE type = "mean" -> stat.mean
    [] type = "min" -> stat.min
    [] type = "max" -> stat.max
    [] OTHER -> stat.sum

\* statisticsHaveType(stats, type)
statisticsHaveType(stats, type) ==
  \E k \in DOMAIN stats : ~IsNull(StatValue(stats[k], type))

Includes(seq, x) == \E i \in DOMAIN seq : seq[i] = x

\* [...this.statTypes].sort(...): "min" first, "max" last, the others in order
SortedTypes(types) ==
  SelectSeq(types, LAMBDA t : t = "min")
    \o SelectSeq(types, LAMBDA t : t # "min" /\ t # "max")
    \o SelectSeq(types, LAMBDA t : t = "max")

GapNever(ctype, hasPrev, prevEnd, start) == FALSE

\* the condition under which pushData draws a gap
NeedsGap(ctype, hasPrev, prevEnd, start) ==
  ctype = "line" /\ hasPrev /\ prevEnd # start

\* pushData(start, end, dataValues) on the statistic's datasets
pushData(st, ctype, start, end, dataValues) ==
  IF start > end THEN st
  ELSE [st EXCEPT
          !.data = [i \in DOMAIN st.data |->
                      (IF NeedsGap(ctype, st.hasPrev, st.prevEndTime, start)
                       THEN st.data[i] \o <<[x |-> st.prevEndTime, y |-> st.prevValues[i]],
                                            [x |-> st.prevEndTime, y |-> Null]>>
                       ELSE st.data[i])
                      \o <<[x |-> start, y |-> dataValues[i]]>>],
          !.prevValues = dataValues,
          !.prevEndTime = end,
          !.hasPrev = TRUE]

\* the value of one type of one bucket, and the firstSum after it
TypeValue(stat, type, firstSum) ==
  IF type = "sum" THEN
    IF IsNull(firstSum) THEN [val |-> Num(0), firstSum |-> stat.sum]
    ELSE [val |-> Num((IF IsNull(stat.sum) THEN 0 ELSE stat.sum[1]) - firstSum[1]),
          firstSum |-> firstSum]
  ELSE [val |-> StatValue(stat, type), firstSum |-> firstSum]

\* statTypes.forEach(type => dataValues.push(val ?? null)) for one bucket
RECURSIVE DataValues(_, _, _, _, _)
DataValues(stat, types, k, firstSum, acc) ==
  IF k > Len(types) THEN [values |-> acc, firstSum |-> firstSum]
  ELSE LET r == TypeValue(stat, types[k], firstSum)
       IN DataValues(stat, types, k + 1, r.firstSum, Append(acc, r.val))

\* stats.forEach(stat => pushData(...)) from bucket k on
RECURSIVE ProcessStats(_, _, _, _, _)
ProcessStats(stats, types, ctype, k, st) ==
  IF k > Len(stats) THEN st
  ELSE LET dv == DataValues(stats[k], types, 1, st.firstSum, <<>>)
           pushed == pushData(st, ctype, stats[k].start, stats[k].end, dv.values)
       IN ProcessStats(stats, types, ctype, k + 1,
                       [pushed EXCEPT !.firstSum = dv.firstSum])

\* the datasets, dataset extras and ids of one statistic
StatDatasets(entry, meta, ctype, colorIndex) ==
  LET stats == entry.stats
      name == StatisticLabel(entry.id, meta)
      hasMean == Includes(statTypes, "mean") /\ statisticsHaveType(stats, "mean")
      drawBands == hasMean \/ (/\ Includes(statTypes, "min")
                               /\ statisticsHaveType(stats, "min")
                               /\ Includes(statTypes, "max")
                               /\ statisticsHaveType(stats, "max"))
      sortedTypes == IF drawBands THEN SortedTypes(statTypes) ELSE statTypes
      types == SelectSeq(sortedTypes, LAMBDA t : statisticsHaveType(stats, t))
      st0 == [data |-> [i \in DOMAIN types |-> <<>>], prevValues |-> <<>>,
              prevEndTime |-> 0, hasPrev |-> FALSE, firstSum |-> Null]
      st == ProcessStats(stats, types, ctype, 1, st0)
      firstShown == IF hasMean THEN "mean" ELSE IF types = <<>> THEN "" ELSE types[1]
  IN [datasets |->
        [i \in DOMAIN types |->
           LET band == drawBands /\ types[i] \in {"min", "max"}
           IN [label |-> <<name, types[i]>>,
               fill |-> IF drawBands /\ types[i] = "min" /\ hasMean THEN "+1"
                        ELSE IF drawBands /\ types[i] = "max" THEN "-1"
                        ELSE "false",
               borderColor |-> <<colorIndex, IF band /\ hasMean THEN "7F" ELSE "">>,
               backgroundColor |-> <<colorIndex, IF band THEN "3F" ELSE "7F">>,
               hidden |-> FALSE,
               data |-> st.data[i],
               unit |-> meta.unit_of_measurement,
               band |-> band]],
      extras |-> [i \in DOMAIN types |->
                    [legend_label |-> name, show_legend |-> types[i] = firstShown]],
      ids |-> [i \in DOMAIN types |-> entry.id]]

\* statisticsData.forEach(...) from entry k on
RECURSIVE GenerateFrom(_, _, _, _, _)
GenerateFrom(entries, meta, ctype, k, acc) ==
  IF k > Len(entries) THEN acc
  ELSE LET r == StatDatasets(entries[k], meta[entries[k].id], ctype, k - 1)
       IN GenerateFrom(entries, meta, ctype, k + 1,
                       [datasets |-> acc.datasets \o r.datasets,
                        extras |-> acc.extras \o r.extras,
                        ids |-> acc.ids \o r.ids])

\* what _generateData assigns to _chartData, _chartDatasetExtra, _statisticIds
GenerateData(entries, meta, ctype) ==
  GenerateFrom(entries, meta, ctype, 1,
               [datasets |-> <<>>, extras |-> <<>>, ids |-> <<>>])

\* stats[stats.length - 1].start of an empty list, with endTime unset
EndTimeThrows(entries) ==
  ~endTimeSet /\ \E i \in DOMAIN entries : entries[i].stats = <<>>

\* _generateData after the metadata is available; `data` and `ctype` are
\* this.statisticsData and this.chartType as read at that moment
GenerateContinue(data, ctype, meta) ==
  IF ~data.defined THEN
    \* Object.entries(undefined)
    /\ threw' = TRUE
    /\ UNCHANGED <<_chartData, _chartDatasetExtra, _statisticIds>>
  ELSE IF data.entries = <<>> THEN
    UNCHANGED <<_chartData, _chartDatasetExtra, _statisticIds, threw>>
  ELSE IF EndTimeThrows(data.entries) THEN
    /\ threw' = TRUE
    /\ UNCHANGED <<_chartData, _chartDatasetExtra, _statisticIds>>
  ELSE
    LET r == GenerateData(data.entries, meta, ctype)
    IN /\ _chartData' = r.datasets
       /\ _chartDatasetExtra' = r.extras
       /\ _statisticIds' = r.ids
       /\ UNCHANGED threw

\* _generateData() as called by willUpdate, up to its await; `data` and
\* `ctype` are the property values the update has just applied
GenerateCall(data, ctype) ==
  IF ~data.defined THEN
    UNCHANGED <<_chartData, _chartDatasetExtra, _statisticIds, threw, pendingCalls>>
  ELSE IF metadataSet THEN
    /\ GenerateContinue(data, ctype, MetaFor(StatisticIdsAll))
    /\ UNCHANGED pendingCalls
  ELSE
    /\ pendingCalls' = Append(pendingCalls, Keys(data.entries))
    /\ UNCHANGED <<_chartData, _chartDatasetExtra, _statisticIds, threw>>

\* ---- inputs
StatValues == {Null, Num(1)}

\* the statistic types a series reports
Profiles == {{"mean", "min", "max"}, {"sum"}, {"min", "max"}}

MkStat(start, end, v, profile) ==
  [start |-> start, end |-> end,
   mean |-> IF "mean" \in profile THEN v ELSE Null,
   min |-> IF "min" \in profile THEN v ELSE Null,
   max |-> IF "max" \in profile THEN v ELSE Null,
   sum |-> IF "sum" \in profile THEN v ELSE Null]

\* end - start of a bucket: malformed, empty, or one period
Durations == {-1, 0, 1}

\* the bucket lists of at most n buckets reporting profile p, in chronological
\* order as the backend returns them, the first bucket starting at `from` or later
RECURSIVE SeriesFrom(_, _, _)
SeriesFrom(n, from, p) ==
  IF n = 0 THEN {<<>>}
  ELSE {<<>>} \cup
       UNION {{<<MkStat(s, s + d, v, p)>> \o rest : rest \in SeriesFrom(n - 1, s, p)}
                : s \in from..MaxTime, d \in Durations, v \in StatValues}

SeriesInputs == UNION {SeriesFrom(MaxBuckets, 0, p) : p \in Profiles}

\* two hourly buckets with a hole between them
HoleSeries == <<MkStat(0, 1, Num(1), {"mean"}), MkStat(2, 3, Num(1), {"mean"})>>

Data(entries) == [defined |-> TRUE, entries |-> entries]

GenInputs ==
  {NoData, Data(<<>>)}
    \cup {Data(<<[id |-> "a", stats |-> ss]>>) : ss \in SeriesInputs}
    \cup {Data(<<[id |-> "b", stats |-> HoleSeries], [id |-> "a", stats |-> ss]>>)
            : ss \in SeriesInputs}

AsyncInputs ==
  {NoData, Data(<<>>),
   Data(<<[id |-> "a", stats |-> HoleSeries]>>),
   Data(<<[id |-> "b", stats |-> HoleSeries]>>),
   Data(<<[id |-> "a", stats |-> <<>>]>>),
   Data(<<[id |-> "a", stats |-> HoleSeries], [id |-> "b", stats |-> <<>>]>>)}

\* ---- actions
\* the parent assigns statisticsData; the update calls _generateData
SetStatisticsData(d) ==
  /\ Len(pendingCalls) < MaxPending
  /\ statisticsData' = d
  /\ GenerateCall(d, statChartType)
  /\ UNCHANGED <<statChartType, endTimeSet, metadataSet>>
  /\ UNCHANGED <<loginVars, chartVars, scriptVars>>

\* the parent assigns chartType; the update calls _generateData
SetStatChartType(t) ==
  /\ Len(pendingCalls) < MaxPending
  /\ t # statChartType
  /\ statChartType' = t
  /\ GenerateCall(statisticsData, t)
  /\ UNCHANGED <<statisticsData, endTimeSet, metadataSet>>
  /\ UNCHANGED <<loginVars, chartVars, scriptVars>>

\* the first update: willUpdate sees statisticsData among the changed properties
FirstUpdateStats ==
  /\ Len(pendingCalls) < MaxPending
  /\ GenerateCall(statisticsData, statChartType)
  /\ UNCHANGED <<statisticsData, statChartType, endTimeSet, metadataSet>>
  /\ UNCHANGED <<loginVars, chartVars, scriptVars>>

Remove(seq, i) == [j \in 1..(Len(seq) - 1) |-> IF j < i THEN seq[j] ELSE seq[j + 1]]

\* the metadata fetch of the i-th suspended call resolves
FetchDone(i) ==
  /\ i \in DOMAIN pendingCalls
  /\ GenerateContinue(statisticsData, statChartType, MetaFor(pendingCalls[i]))
  /\ pendingCalls' = Remove(pendingCalls, i)
  /\ UNCHANGED <<statisticsData, statChartType, endTimeSet, metadataSet>>
  /\ UNCHANGED <<loginVars, chartVars, scriptVars>>

NextGen ==
  \/ FirstUpdateStats
  \/ \E t \in ChartTypes : SetStatChartType(t)

NextStats ==
  \/ \E d \in AsyncInputs : SetStatisticsData(d)
  \/ \E t \in ChartTypes : SetStatChartType(t)
  \/ \E i \in 1..MaxPending : FetchDone(i)

(***************************************************************************)
(* StateCardScript                                                         *)
(***************************************************************************)
EntityIds == {"script.a", "script.b"}

ScriptStates == {"on", "off", "unavailable"}

\* stateObj: entity_id, state and whether attributes.max is set
StateObjs == [entity_id : EntityIds, state : ScriptStates, max : BOOLEAN]

\* hasScriptFields(hass, entityId): the script service of the entity
\* declares at least one field
hasScriptFields(fields, entityId) == entityId \in fields

\* isUnavailableState(state)
isUnavailableState(state) == state = "unavailable"

\* canRun(stateObj): off, or on in a mode that allows further runs
canRun(s) == s.state = "off" \/ (s.state = "on" /\ s.max)

\* render: the cancel button exists
CancelButtonShown(s) == s.state = "on"

\* render: the run button exists and is not disabled
RunButtonEnabled(s) ==
  /\ s.state = "off" \/ s.max
  /\ ~(isUnavailableState(s.state) \/ ~canRun(s))

ServiceCallToggle(service, s) ==
  [domain |-> "script", service |-> "toggle", entity_id |-> s.entity_id]

\* the arguments _callService passes to hass.callService
ServiceCall(service, s) ==
  [domain |-> "script", service |-> service, entity_id |-> s.entity_id]

\* _callService(service): the promise of hass.callService is dropped
CallService(service) ==
  /\ serviceCalls' = Append(serviceCalls, ServiceCall(service, stateObj))
  /\ servicePending' = servicePending + 1

\* a click on the cancel button
CancelScript ==
  /\ clicks < MaxClicks
  /\ CancelButtonShown(stateObj)
  /\ clicks' = clicks + 1
  /\ lastClick' = "cancel"
  /\ CallService("turn_off")
  /\ UNCHANGED <<stateObj, hasFields, dialogsOpened>>
  /\ UNCHANGED <<loginVars, chartVars, statsVars>>

\* a click on the run button
RunScript ==
  /\ clicks < MaxClicks
  /\ RunButtonEnabled(stateObj)
  /\ clicks' = clicks + 1
  /\ lastClick' = "run"
  /\ IF hasScriptFields(hasFields, stateObj.entity_id) THEN
       /\ dialogsOpened' = Append(dialogsOpened, stateObj.entity_id)
       /\ UNCHANGED <<serviceCalls, servicePending>>
     ELSE
       /\ CallService("turn_on")
       /\ UNCHANGED dialogsOpened
  /\ UNCHANGED <<stateObj, hasFields>>
  /\ UNCHANGED <<loginVars, chartVars, statsVars>>

\* the backend answers a service call; nothing in the card observes the
\* outcome
ServiceSettled(ok) ==
  /\ servicePending > 0
  /\ servicePending' = servicePending - 1
  /\ UNCHANGED <<stateObj, hasFields, serviceCalls, dialogsOpened, clicks, lastClick>>
  /\ UNCHANGED <<loginVars, chartVars, statsVars>>

\* the parent passes a new state object
SetStateObj(s) ==
  /\ s # stateObj
  /\ stateObj' = s
  /\ UNCHANGED <<hasFields, serviceCalls, servicePending, dialogsOpened, clicks,
                 lastClick>>
  /\ UNCHANGED <<loginVars, chartVars, statsVars>>

\* hass changes: the registered script services change
SetServices(f) ==
  /\ f # hasFields
  /\ hasFields' = f
  /\ UNCHANGED <<stateObj, serviceCalls, servicePending, dialogsOpened, clicks,
                 lastClick>>
  /\ UNCHANGED <<loginVars, chartVars, statsVars>>

NextScript ==
  \/ RunScript
  \/ CancelScript
  \/ \E ok \in BOOLEAN : ServiceSettled(ok)
  \/ \E s \in StateObjs : SetStateObj(s)
  \/ \E f \in SUBSET EntityIds : SetServices(f)

(***************************************************************************)
(* Properties: StatisticsChart                                             *)
(***************************************************************************)
\* the buckets of a series that pushData plots (start not after end)
Plotted(stats) == SelectSeq(stats, LAMBDA b : b.start <= b.end)

\* the buckets given for the statistic of dataset i
StatsOfDataset(i) ==
  LET e == CHOOSE k \in DOMAIN statisticsData.entries :
             statisticsData.entries[k].id = _statisticIds[i]
  IN statisticsData.entries[e].stats

\* plotted buckets k-1 and k are non-contiguous
Hole(P, k) == k > 1 /\ P[k - 1].end # P[k].start

\* The data of dataset i holds, in order, one point per plotted bucket at the
\* bucket's start and, exactly before the buckets k for which gapAt(P, k)
\* holds, the previous bucket's value and a null value at the previous
\* bucket's end.
GapLayout(i, gapAt(_, _)) ==
  LET P == Plotted(StatsOfDataset(i))
      data == _chartData[i].data
      Pos(k) == k + 2 * Cardinality({j \in 2..k : gapAt(P, j)})
  IN /\ Len(data) = (IF P = <<>> THEN 0 ELSE Pos(Len(P)))
     /\ \A k \in DOMAIN P :
          /\ data[Pos(k)].x = P[k].start
          /\ gapAt(P, k) =>
               /\ data[Pos(k) - 1] = [x |-> P[k - 1].end, y |-> Null]
               /\ data[Pos(k) - 2].x = P[k - 1].end

\* C1 as stated: for every chart type, each dataset of a statistic gets a
\* null-valued gap point at the previous bucket's end between two consecutive
\* non-contiguous buckets, and no point between two contiguous buckets.
C1_GapForEveryChartType ==
  \A i \in DOMAIN _chartData : GapLayout(i, Hole)

HoleInLine(P, k) == statChartType = "line" /\ Hole(P, k)

\* C1 amended: when chartType is "line", each dataset of a statistic gets a
\* null-valued gap point (y = null at the previous bucket's end) between the
\* points of two consecutive plotted buckets that are non-contiguous, and no
\* point is inserted between two contiguous buckets; for any other chart type
\* no gap point is inserted at all.
C1_GapForLineCharts ==
  \A i \in DOMAIN _chartData : GapLayout(i, HoleInLine)

\* a line chart was generated with a dataset holding a gap and a dataset
\* whose two plotted buckets are contiguous
C1_Witness ==
  /\ statChartType = "line"
  /\ \E i \in DOMAIN _chartData :
       \E k \in DOMAIN _chartData[i].data : k > 1 /\ IsNull(_chartData[i].data[k].y)
                                            /\ ~IsNull(_chartData[i].data[k - 1].y)
  /\ \E i \in DOMAIN _chartData :
       LET P == Plotted(StatsOfDataset(i))
       IN Len(P) = 2 /\ ~Hole(P, 2) /\ Len(_chartData[i].data) = 2

\* C2: _generateData never raises an exception, whatever statisticsData is
\* (undefined, empty, a statistic with an empty bucket list while endTime is
\* unset, or undefined while the metadata fetch is pending).
C2_NeverThrows == ~threw

\* a single _generateData run on the current properties writes new datasets
RunWrites ==
  /\ statisticsData.defined
  /\ statisticsData.entries # <<>>
  /\ ~EndTimeThrows(statisticsData.entries)

\* C5: once every pending _generateData call has finished, the chart state is
\* what one run computes from the latest statisticsData and the metadata
\* fetched for its statistic ids.
C5_ReflectsLatest ==
  (pendingCalls = <<>> /\ RunWrites) =>
    LET r == GenerateData(statisticsData.entries,
                          MetaFor(Keys(statisticsData.entries)), statChartType)
    IN /\ _chartData = r.datasets
       /\ _chartDatasetExtra = r.extras
       /\ _statisticIds = r.ids

(***************************************************************************)
(* Properties: CloudStepSignin                                             *)
(***************************************************************************)
Rejected(call) == call.result \notin {"pending", "ok"}

\* C3 as stated: within one _handleLogin invocation a rejected cloudLogin call
\* is never followed by another cloudLogin call.
C3_NoRetry ==
  \A i \in DOMAIN loginCalls : Rejected(loginCalls[i]) => i = Len(loginCalls)

\* C3 amended: a rejected cloudLogin call is followed by another cloudLogin
\* call only when it is the first call of the invocation, its error code is
\* "usernotfound" and the username is not all lower case; that one retry uses
\* the lower-cased username, and it is never retried itself.
C3_OneLowerCaseRetry ==
  /\ Len(loginCalls) <= 2
  /\ \A i \in DOMAIN loginCalls :
       (Rejected(loginCalls[i]) /\ i < Len(loginCalls)) =>
         /\ i = 1
         /\ loginCalls[i].result = "usernotfound"
         /\ loginCalls[i].username # ToLowerCase(loginCalls[i].username)
         /\ loginCalls[i + 1].username = ToLowerCase(loginCalls[i].username)

\* the lower-cased retry was made and was rejected with "usernotfound" too
C3_Witness ==
  /\ loginPc = "done"
  /\ Len(loginCalls) = 2
  /\ loginCalls[2].result = "usernotfound"

FinalRejected ==
  loginPc = "done" /\ loginCalls # <<>> /\ Rejected(loginCalls[Len(loginCalls)])

FinalCode == loginCalls[Len(loginCalls)].result

\* the inline alert renders _error
AlertShown == _error # UNDEF /\ _error # ""

\* C4 as stated: whenever the final cloudLogin call of an invocation rejects,
\* whatever the error code, the component ends with _error set to a non-empty
\* string that the inline alert renders.
C4_EveryRejectionInline == FinalRejected => AlertShown

\* C4 amended: whenever the final cloudLogin call of an invocation rejects
\* with an error code other than PasswordChangeRequired, the component ends
\* with _error set to a non-empty string that the inline alert renders (and
\* with _requestInProgress false); a PasswordChangeRequired rejection leaves
\* _error as it was and instead shows the alert dialog, navigates to the
\* forgot-password page and fires "closed".
C4_RejectionInlineOrDialog ==
  /\ [](FinalRejected =>
          IF FinalCode = "PasswordChangeRequired" THEN navigated
          ELSE AlertShown /\ ~_requestInProgress)
  /\ [][(loginPc = "calling" /\ loginPc' = "done"
           /\ loginCalls'[Len(loginCalls')].result = "PasswordChangeRequired")
          => _error' = _error]_vars

\* a rejection without a message ended the invocation with "Unknown error"
C4_Witness ==
  /\ FinalRejected
  /\ FinalCode = "other"
  /\ _error = "Unknown error"
  /\ ~_requestInProgress

(***************************************************************************)
(* Properties: HaChartBase                                                 *)
(***************************************************************************)
\* C6: while the component is detached it holds no live Chart instance.
C6_NoLiveChartWhileDetached == ~connected => LiveCharts = 0

\* C7: at most one live Chart instance exists, and every Chart that
\* _setupChart creates replaces a destroyed one or none.
C7_AtMostOneLiveChart == orphans = 0 /\ LiveCharts <= 1

\* a chart that replaced an earlier, destroyed one is live
C7_Witness == IsLive(chart) /\ chart.replaces /\ orphans = 0

\* C8: willUpdate, updateChart, resize and _legendClick are applied only to a
\* Chart instance that has not been destroyed.
C8_NeverOperatesOnDestroyed == ~usedDestroyed

\* C9: _setupChart is mutually exclusive and always releases its guard: at
\* most one call is suspended in the construction, _loading is true exactly
\* while one is, and a call made while _loading is true starts nothing.
C9_SetupExclusive ==
  /\ [](setupPending <= 1 /\ (_loading <=> setupPending = 1))
  /\ [][(_loading /\ ~skipped /\ skipped')
          => (setupPending' = setupPending /\ _loading'
              /\ [chart' EXCEPT !.destroyed = FALSE] = [chart EXCEPT !.destroyed = FALSE])]_vars

\* a call returned at the guard, the call in flight then threw, and the guard
\* was released
C9_Witness == skipped /\ lastSetup = "failed" /\ ~_loading /\ setupPending = 0

\* no _setupChart call and no update for chartType or plugins is pending, and
\* the latest _setupChart call completed successfully
ChartSettled ==
  /\ setupPending = 0
  /\ lastSetup = "done"
  /\ changedProps \cap {"chartType", "plugins"} = {}

\* C10: once all pending _setupChart calls have completed successfully (and
\* the updates for the changed properties have run), the current chart was
\* constructed with the component's current chartType and plugins.
C10_ChartMatchesProperties ==
  ChartSettled => (chart.type = chartType /\ chart.plugins = plugins)

\* a change arrived while a _setupChart call was in flight, was not restarted,
\* and the chart in place was built with the changed chartType and plugins
C10_Witness ==
  /\ ChartSettled
  /\ skipped
  /\ IsLive(chart)
  /\ chart.type = "bar"
  /\ chart.plugins = "custom"

\* a reactive update ran in this step (its shouldUpdate was asked)
UpdateStep == changedProps # {} /\ changedProps' = {}

\* C11: _paddingUpdateLock is set only by an update whose only changed
\* property is paddingYAxis and which raises _paddingUpdateCount above 300;
\* the counter changes only by +1 in such an update (which restarts the
\* debounced reset while the limit is not exceeded) or to 0 when the debounce
\* timer expires, so updates with other changed properties never increment
\* it; and once _paddingUpdateLock is true it stays true.
C11_LockOnlyAboveLimit ==
  /\ [][(~_paddingUpdateLock /\ _paddingUpdateLock') =>
          /\ UpdateStep
          /\ changedProps = {"paddingYAxis"}
          /\ _paddingUpdateCount' = _paddingUpdateCount + 1
          /\ _paddingUpdateCount' > 300]_vars
  /\ [][(_paddingUpdateCount' # _paddingUpdateCount) =>
          \/ /\ UpdateStep
             /\ changedProps = {"paddingYAxis"}
             /\ _paddingUpdateCount' = _paddingUpdateCount + 1
             /\ _paddingUpdateLock' \/ clearPending'
          \/ /\ clearPending /\ ~clearPending'
             /\ _paddingUpdateCount' = 0]_vars
  /\ [][_paddingUpdateLock => _paddingUpdateLock']_vars

\* the lock has just been set by the 301st padding-only update
C11_Witness ==
  /\ _paddingUpdateLock
  /\ _paddingUpdateCount = PaddingUpdateLimit + 1
  /\ changedProps = {}

\* C12: while _paddingUpdateLock is true, shouldUpdate rejects exactly the
\* updates whose only changed property is paddingYAxis, a rejected update
\* changes nothing but the pending changed properties, and
\* _paddingYAxisInternal keeps its value whatever paddingYAxis becomes.
C12_LockDisablesPadding ==
  /\ [][(_paddingUpdateLock /\ UpdateStep) =>
          lastShouldUpdate' = (changedProps # {"paddingYAxis"})]_vars
  /\ [][(_paddingUpdateLock /\ UpdateStep /\ changedProps = {"paddingYAxis"}) =>
          UNCHANGED <<connected, hasUpdated, chartType, plugins, chart, orphans,
                      _loading, setupPending, lastSetup, usedDestroyed,
                      paddingYAxis, _paddingYAxisInternal, _paddingUpdateCount,
                      _paddingUpdateLock, clearPending, hiddenVars, sizeVars>>]_vars
  /\ [][_paddingUpdateLock => _paddingYAxisInternal' = _paddingYAxisInternal]_vars

\* locked, the latest padding-only update was rejected and the padding in use
\* is no longer the value of the property
C12_Witness ==
  /\ _paddingUpdateLock
  /\ ~lastShouldUpdate
  /\ changedProps = {}
  /\ paddingYAxis # _paddingYAxisInternal

\* the hook stores the reported height h
HookSets(cur, h) ==
  \/ cur = NoHeight
  \/ cur[1] = 0
  \/ h > cur[1] + 12
  \/ h < cur[1] - 12

\* C13: a call of the resize hook sets _chartHeight to the reported height
\* exactly when _chartHeight is unset or 0 or the reported height differs
\* from it by more than 12, and leaves it unchanged otherwise; nothing else
\* changes _chartHeight.
C13_ResizeHysteresis ==
  /\ [][(reportedHeight' # reportedHeight) =>
          (IF HookSets(_chartHeight, reportedHeight'[1])
           THEN _chartHeight' = reportedHeight'
           ELSE _chartHeight' = _chartHeight)]_vars
  /\ [][(reportedHeight' = reportedHeight) => _chartHeight' = _chartHeight]_vars

\* a height exactly 12 away from the stored one was reported and ignored
C13_Witness ==
  /\ _chartHeight # NoHeight
  /\ reportedHeight # NoHeight
  /\ _chartHeight[1] # 0
  /\ \/ reportedHeight[1] = _chartHeight[1] + 12
     \/ reportedHeight[1] = _chartHeight[1] - 12

\* C14: an update in which data changed and that runs with externalHidden
\* set leaves _hiddenDatasets equal to the set of the indices whose dataset
\* is hidden, whatever _hiddenDatasets held before, and leaves the datasets'
\* hidden flags as they were.
C14_ExternalHiddenMirrorsData ==
  [][(UpdateStep /\ lastShouldUpdate' /\ "data" \in changedProps /\ externalHidden) =>
       /\ datasets' = datasets
       /\ _hiddenDatasets' = {i \in DOMAIN datasets : datasets[i]}]_vars

\* after such an update of a chart whose legend can be clicked: one dataset
\* hidden, one shown
C14_Witness ==
  /\ externalHidden
  /\ hasUpdated
  /\ chart.exists
  /\ changedProps = {}
  /\ Len(datasets) = 2
  /\ datasets[1]
  /\ ~datasets[2]
  /\ _hiddenDatasets = {1}

(***************************************************************************)
(* Properties: StateCardScript                                             *)
(***************************************************************************)
\* C15: a run click opens the more-info dialog for the entity and calls no
\* service when the script has fields, and otherwise calls script.turn_on
\* once with the entity id; a cancel click calls script.turn_off once with
\* the entity id; the call is still pending when the handler returns, and no
\* step other than a click calls a service or opens a dialog.
C15_OneActionPerClick ==
  /\ [](Len(serviceCalls) + Len(dialogsOpened) = clicks)
  /\ [][(clicks' = clicks + 1 /\ lastClick' = "run") =>
          IF stateObj.entity_id \in hasFields
          THEN /\ dialogsOpened' = Append(dialogsOpened, stateObj.entity_id)
               /\ serviceCalls' = serviceCalls
               /\ servicePending' = servicePending
          ELSE /\ dialogsOpened' = dialogsOpened
               /\ serviceCalls' = Append(serviceCalls,
                      [domain |-> "script", service |-> "turn_on",
                       entity_id |-> stateObj.entity_id])
               /\ servicePending' = servicePending + 1]_vars
  /\ [][(clicks' = clicks + 1 /\ lastClick' = "cancel") =>
          /\ dialogsOpened' = dialogsOpened
          /\ serviceCalls' = Append(serviceCalls,
                 [domain |-> "script", service |-> "turn_off",
                  entity_id |-> stateObj.entity_id])
          /\ servicePending' = servicePending + 1]_vars
  /\ [][(clicks' = clicks) =>
          (serviceCalls' = serviceCalls /\ dialogsOpened' = dialogsOpened)]_vars

\* one click of each kind has been handled and every call has been answered
C15_Witness ==
  /\ Len(dialogsOpened) = 1
  /\ Len(serviceCalls) = 2
  /\ serviceCalls[1].service # serviceCalls[2].service
  /\ servicePending = 0

(***************************************************************************)
(* Specifications                                                          *)
(***************************************************************************)
\* The state after construction of the three components. dataInputs is the
\* set of values the parent may have given statisticsData before the first
\* update, endTimes the possible values of "endTime is set", and metadata
\* tells whether the parent gives the metadata property.
InitWith(dataInputs, endTimes, metadata, chartData) ==
  /\ _requestInProgress = FALSE
  /\ _error = UNDEF
  /\ loginPc = "idle"
  /\ loginCalls = <<>>
  /\ focused = "none"
  /\ navigated = FALSE
  /\ connected = FALSE
  /\ hasUpdated = FALSE
  /\ chartType = "line"
  /\ plugins = UNDEF
  /\ changedProps = {}
  /\ chart = NoChart
  /\ orphans = 0
  /\ _loading = FALSE
  /\ setupPending = 0
  /\ lastSetup = "none"
  /\ skipped = FALSE
  /\ usedDestroyed = FALSE
  /\ paddingYAxis = 0
  /\ _paddingYAxisInternal = 0
  /\ _paddingUpdateCount = 0
  /\ _paddingUpdateLock = FALSE
  /\ clearPending = FALSE
  /\ lastShouldUpdate = TRUE
  /\ externalHidden = FALSE
  /\ datasets = chartData
  /\ _hiddenDatasets = {}
  /\ _datasetOrder = <<>>
  /\ _chartHeight = NoHeight
  /\ reportedHeight = NoHeight
  /\ stateObj = [entity_id |-> "script.a", state |-> "off", max |-> FALSE]
  /\ hasFields = {}
  /\ serviceCalls = <<>>
  /\ servicePending = 0
  /\ dialogsOpened = <<>>
  /\ clicks = 0
  /\ lastClick = "none"
  /\ statisticsData \in dataInputs
  /\ statChartType = "line"
  /\ endTimeSet \in endTimes
  /\ metadataSet = metadata
  /\ _chartData = <<>>
  /\ _chartDatasetExtra = <<>>
  /\ _statisticIds = <<>>
  /\ pendingCalls = <<>>
  /\ threw = FALSE

Init == InitWith({NoData}, {FALSE}, FALSE, <<>>)

SpecLogin == Init /\ [][NextLogin]_vars

\* the lifecycle of a chart to which the parent has bound one visible dataset
SpecChart == InitWith({NoData}, {FALSE}, FALSE, <<FALSE>>) /\ [][NextChart]_vars

SpecPadding == Init /\ [][NextPadding]_vars

SpecHidden == Init /\ [][NextHidden]_vars

SpecResize == Init /\ [][NextResize]_vars

SpecScript == Init /\ [][NextScript]_vars

\* the synchronous transform (metadata given by the parent) over all inputs
SpecGen == InitWith(GenInputs, {TRUE}, TRUE, <<>>) /\ [][NextGen]_vars

\* overlapping calls that fetch the metadata
SpecStats == InitWith({NoData}, BOOLEAN, FALSE, <<>>) /\ [][NextStats]_vars

Spec == SpecChart

====
